---- MODULE Spec2Model ----
(***************************************************************************)
(* Model of uppy (src/src/main.rs): a single-shot uploader.  One run of    *)
(* main is a walk through the stages                                       *)
(*   start -> resolve -> upload -> match -> cleanup -> hash -> rename      *)
(* ending in "done" (main returned) or "panic" (an unwrap/expect fired).   *)
(* Every I/O call of the program is a nondeterministic choice between the  *)
(* results the operating system can give it.                               *)
(***************************************************************************)
EXTENDS Integers, Sequences, FiniteSets, TLC

\* ---- bounds of the model ----
MaxFileLen == 3        \* longest target file, in bytes
MaxByte == 1           \* bytes of the target file range over 0..MaxByte
BufSize == 2           \* length of the read buffer (1024 in the program), scaled
MaxFiles == 2          \* longest "files" list in a response body

\* ---- values ----
None == "None"
NoFile == [exists |-> FALSE, content |-> <<>>]
File(c) == [exists |-> TRUE, content |-> c]
NoBody == [kind |-> "none", files |-> <<>>]
NoConfig == [ok |-> FALSE, host |-> "", token |-> ""]
NoOutcome == [tag |-> "None", status |-> 0, body |-> NoBody]
NoUrls == [parsed |-> FALSE, files |-> <<>>]
PriorClip == "prior-clipboard"
EmptyClip == "empty-clipboard"

Bytes == 0..MaxByte
Contents == UNION {[1..n -> Bytes] : n \in 0..MaxFileLen}

Urls == {"https://h.example/abc", "https://h.example/xyz"}

\* status codes a completed response can carry (http::StatusCode is 100..999)
Statuses == {100, 200, 399, 400, 404, 499, 500, 599, 600}

\* response bodies: text() may fail, the text may not be the expected JSON,
\* or it is {"files": [...]}
Bodies ==
  {[kind |-> "unreadable", files |-> <<>>], [kind |-> "garbage", files |-> <<>>]}
  \cup {[kind |-> "json", files |-> fs] :
           fs \in UNION {[1..n -> Urls] : n \in 0..MaxFiles}}

\* ---- Configuration (struct Configuration, config.json) ----
CfgKinds == {"absent", "template", "valid", "badtoken", "malformed"}

\* serde_json::from_str::<Configuration> on the file's text
ParseConfig(kind) ==
  CASE kind = "template" -> [ok |-> TRUE, host |-> "https://", token |-> ""]
    [] kind = "valid"    -> [ok |-> TRUE, host |-> "https://h.example", token |-> "T"]
    [] kind = "badtoken" -> [ok |-> TRUE, host |-> "https://h.example", token |-> "T<LF>"]
    [] OTHER             -> NoConfig

\* HeaderValue::from_str(&config.token) succeeds
TokenIsHeaderValue(c) == c.token # "T<LF>"

\* ---- one line of stdin, as a sequence of characters ----
Lines ==
  { <<"y", "LF">>, <<"SP", "Y", "e", "S", "SP", "CR", "LF">>, <<"y", "e", "s">>,
    <<"TAB", "n", "LF">>, <<"N", "O", "LF">>,
    <<"LF">>, <<>>, <<"y", "SP", "e", "s", "LF">>, <<"n", "o", "p", "e", "LF">> }

WhiteSpace == {"SP", "TAB", "LF", "CR"}

RECURSIVE TrimStart(_)
TrimStart(s) ==
  IF s # <<>> /\ Head(s) \in WhiteSpace THEN TrimStart(Tail(s)) ELSE s

RECURSIVE TrimEnd(_)
TrimEnd(s) ==
  IF s # <<>> /\ s[Len(s)] \in WhiteSpace
    THEN TrimEnd(SubSeq(s, 1, Len(s) - 1)) ELSE s

\* str::trim
trim(s) == TrimEnd(TrimStart(s))

LowerChar(c) ==
  CASE c = "Y" -> "y" [] c = "E" -> "e" [] c = "S" -> "s"
    [] c = "N" -> "n" [] c = "O" -> "o" [] OTHER -> c

\* str::to_lowercase
to_lowercase(s) == [i \in 1..Len(s) |-> LowerChar(s[i])]

\* the match on buf.trim().to_lowercase() in file_cleanup
DeletionChoiceOf(buf) ==
  LET t == to_lowercase(trim(buf)) IN
  IF t = <<"y", "e", "s">> \/ t = <<"y">> THEN "Yes"
  ELSE IF t = <<"n", "o">> \/ t = <<"n">> THEN "No"
  ELSE "InvalidChoice"

\* ---- Md5: an iterated hash over the byte stream, 16-bit stand-in ----
HashMod == 2^16
Md5New == [h |-> 7, n |-> 0]

RECURSIVE Md5Update(_, _)
Md5Update(ctx, bytes) ==
  IF bytes = <<>> THEN ctx
  ELSE Md5Update([h |-> (ctx.h * 31 + Head(bytes) + 1) % HashMod, n |-> ctx.n + 1],
                 Tail(bytes))

\* finalize pads with the length of the stream
Md5Finalize(ctx) == (ctx.h * 31 + ctx.n) % HashMod

\* the digest of a whole byte string
Md5Of(bytes) == Md5Finalize(Md5Update(Md5New, bytes))

HexDigit(d) ==
  <<"0","1","2","3","4","5","6","7","8","9","a","b","c","d","e","f">>[d + 1]

\* format!("{:x}", digest): fixed width, lower case
Hex(d) ==
  << HexDigit((d \div 4096) % 16), HexDigit((d \div 256) % 16),
     HexDigit((d \div 16) % 16), HexDigit(d % 16) >>

\* env::temp_dir().join(format!("{:x}.tmp", result)): the name inside the temp dir
TempName(d) == Hex(d) \o <<".", "t", "m", "p">>

\* ---- StatusCode classification ----
\* mutant: the lower edge of the 4xx range is excluded
is_client_error_OffByOne(s) == s > 400 /\ s < 500

is_client_error(s) == s >= 400 /\ s < 500
is_server_error(s) == s >= 500 /\ s < 600

\* the Ok(res) arm of upload_file
ClassifyResponse(s, body) ==
  IF is_client_error(s) THEN [tag |-> "HTTPClientError", status |-> s, body |-> NoBody]
  ELSE IF is_server_error(s) THEN [tag |-> "HTTPServerError", status |-> s, body |-> NoBody]
  ELSE [tag |-> "Success", status |-> s, body |-> body]

FailureTags == {"IOError", "ReqwestError", "HTTPClientError", "HTTPServerError"}

VARIABLES
  pc,          \* stage of main
  cfgParent,   \* %USERPROFILE%\.config exists
  cfgDir,      \* %USERPROFILE%\.config\uppy exists
  cfgFile,     \* what config.json holds (a CfgKind)
  dir0,        \* cfgDir at program start
  cfgFile0,    \* cfgFile at program start
  config,      \* the Configuration main holds, or NoConfig
  orig,        \* the file at the target path, or NoFile
  orig0,       \* orig at program start
  temp,        \* the temp directory: a set of [name, content]
  clipboard,   \* the OS clipboard
  resp,        \* what happened inside upload_file: [form, sent]
  outcome,     \* the UploadResult main matches on, or NoOutcome
  urls,        \* the JSONResponse main parsed from the body, or NoUrls
  clipResult,  \* result of set_clipboard: None, "ok", "err"
  line,        \* the stdin line read
  choice,      \* the DeletionChoice, or None
  hpos,        \* offset of the hashing file handle
  hash,        \* the Md5 context
  readFailed,  \* a chunk read returned Err
  dest,        \* name the rename targets inside the temp directory
  renameResult,\* None, "ok", "err"
  httpSent,    \* HTTP requests sent
  prompts,     \* times the cleanup prompt was printed
  stdinReads,  \* read_line calls
  hashOpens,   \* File::open calls of file_cleanup
  hashReads,   \* f.read calls
  renames,     \* fs::rename calls
  out          \* messages printed, in order: <<stream, message>>

vars == <<pc, cfgParent, cfgDir, cfgFile, dir0, cfgFile0, config, orig, orig0,
          temp, clipboard, resp, outcome, urls, clipResult, line, choice, hpos, hash,
          readFailed, dest, renameResult, httpSent, prompts, stdinReads,
          hashOpens, hashReads, renames, out>>

cfgVars == <<cfgParent, cfgDir, cfgFile, dir0, cfgFile0>>
fsVars == <<orig, orig0, temp>>
upVars == <<resp, outcome, urls, httpSent>>
clipVars == <<clipboard, clipResult>>
cleanVars == <<line, choice, hpos, hash, readFailed, dest, renameResult,
               prompts, stdinReads, hashOpens, hashReads, renames>>

Terminal == {"done", "panic"}

Init ==
  /\ pc = "start"
  /\ cfgParent \in BOOLEAN
  /\ cfgDir \in BOOLEAN
  /\ cfgFile \in CfgKinds
  /\ cfgDir => cfgParent
  /\ cfgFile # "absent" => cfgDir
  /\ dir0 = cfgDir
  /\ cfgFile0 = cfgFile
  /\ config = NoConfig
  /\ orig \in {File(c) : c \in Contents} \cup {NoFile}
  /\ orig0 = orig
  /\ temp = {}
  /\ clipboard = PriorClip
  /\ resp = [form |-> "none", sent |-> "none"]
  /\ outcome = NoOutcome
  /\ urls = NoUrls
  /\ clipResult = None
  /\ line = <<>>
  /\ choice = None
  /\ hpos = 0
  /\ hash = Md5New
  /\ readFailed = FALSE
  /\ dest = <<>>
  /\ renameResult = None
  /\ httpSent = 0
  /\ prompts = 0
  /\ stdinReads = 0
  /\ hashOpens = 0
  /\ hashReads = 0
  /\ renames = 0
  /\ out = <<>>

Say(msgs) == out' = out \o msgs

Min(a, b) == IF a < b THEN a ELSE b

\* ---- main, lines 141-167: configuration bootstrap ----

\* fs::create_dir succeeds (the directory was absent), the template is written
BootstrapFirstRun ==
  /\ pc = "start"
  /\ ~cfgDir /\ cfgParent
  /\ cfgDir' = TRUE
  /\ cfgFile' = "template"
  /\ Say(<< <<"stdout", "Configuration directory created in .config">> >>)
  /\ pc' = "done"
  /\ UNCHANGED <<cfgParent, dir0, cfgFile0, config, fsVars, upVars, clipVars, cleanVars>>

\* fs::create_dir succeeds, fs::write fails: expect panics
BootstrapWriteFails ==
  /\ pc = "start"
  /\ ~cfgDir /\ cfgParent
  /\ cfgDir' = TRUE
  /\ Say(<< <<"stderr", "panic: Failed to write to configuration file please fill it out manually">> >>)
  /\ pc' = "panic"
  /\ UNCHANGED <<cfgParent, cfgFile, dir0, cfgFile0, config, fsVars, upVars, clipVars, cleanVars>>

\* fs::create_dir returns Err (directory exists, parent missing, access
\* denied); read_config reads and parses config.json
ReadConfigOk ==
  /\ pc = "start"
  /\ cfgDir /\ cfgFile # "absent"
  /\ ParseConfig(cfgFile).ok
  /\ config' = ParseConfig(cfgFile)
  /\ pc' = "resolve"
  /\ UNCHANGED <<cfgVars, fsVars, upVars, clipVars, cleanVars, out>>

\* fs::create_dir returns Err; fs::read_to_string fails: expect panics
ReadConfigReadFails ==
  /\ pc = "start"
  /\ Say(<< <<"stderr", "panic: Failed to read file">> >>)
  /\ pc' = "panic"
  /\ UNCHANGED <<cfgVars, config, fsVars, upVars, clipVars, cleanVars>>

\* fs::create_dir returns Err; the file is read but is not a Configuration
ReadConfigParseFails ==
  /\ pc = "start"
  /\ cfgDir /\ cfgFile # "absent"
  /\ ~ParseConfig(cfgFile).ok
  /\ Say(<< <<"stderr", "panic: JSON file is not formatted properly">> >>)
  /\ pc' = "panic"
  /\ UNCHANGED <<cfgVars, config, fsVars, upVars, clipVars, cleanVars>>

\* ---- main, lines 170-183: target path and headers ----

\* file_str[1] with no argument: index out of bounds
ArgMissing ==
  /\ pc = "resolve"
  /\ Say(<< <<"stderr", "panic: index out of bounds">> >>)
  /\ pc' = "panic"
  /\ UNCHANGED <<cfgVars, config, fsVars, upVars, clipVars, cleanVars>>

\* env::current_dir() fails
CurrentDirFails ==
  /\ pc = "resolve"
  /\ Say(<< <<"stderr", "Failed to get executed directory!">> >>)
  /\ pc' = "done"
  /\ UNCHANGED <<cfgVars, config, fsVars, upVars, clipVars, cleanVars>>

\* construct_headers: the token is not a header value
HeadersPanic ==
  /\ pc = "resolve"
  /\ ~TokenIsHeaderValue(config)
  /\ Say(<< <<"stderr", "panic: Failed to convert token to header">> >>)
  /\ pc' = "panic"
  /\ UNCHANGED <<cfgVars, config, fsVars, upVars, clipVars, cleanVars>>

\* target_file = cwd.join(argv[1]); headers built
ResolveOk ==
  /\ pc = "resolve"
  /\ TokenIsHeaderValue(config)
  /\ pc' = "upload"
  /\ UNCHANGED <<cfgVars, config, fsVars, upVars, clipVars, cleanVars, out>>

\* ---- upload_file ----

\* multipart::Form::file fails: no request is built
UploadFormErr ==
  /\ pc = "upload"
  /\ resp' = [form |-> "err", sent |-> "none"]
  /\ outcome' = [tag |-> "IOError", status |-> 0, body |-> NoBody]
  /\ pc' = "match"
  /\ UNCHANGED <<cfgVars, config, fsVars, urls, httpSent, clipVars, cleanVars, out>>

\* mutant: a transport error is retried once
UploadSendErr_Retry ==
  /\ pc = "upload"
  /\ orig # NoFile
  /\ httpSent' = httpSent + 2
  /\ resp' = [form |-> "ok", sent |-> "err"]
  /\ outcome' = [tag |-> "ReqwestError", status |-> 0, body |-> NoBody]
  /\ pc' = "match"
  /\ UNCHANGED <<cfgVars, config, fsVars, urls, clipVars, cleanVars, out>>

\* send() returns Err
UploadSendErr ==
  /\ pc = "upload"
  /\ orig # NoFile
  /\ httpSent' = httpSent + 1
  /\ resp' = [form |-> "ok", sent |-> "err"]
  /\ outcome' = [tag |-> "ReqwestError", status |-> 0, body |-> NoBody]
  /\ pc' = "match"
  /\ UNCHANGED <<cfgVars, config, fsVars, urls, clipVars, cleanVars, out>>

\* send() returns a response
UploadResponse ==
  /\ pc = "upload"
  /\ orig # NoFile
  /\ \E s \in Statuses, b \in Bodies :
       /\ resp' = [form |-> "ok", sent |-> "ok"]
       /\ outcome' = ClassifyResponse(s, b)
  /\ httpSent' = httpSent + 1
  /\ pc' = "match"
  /\ UNCHANGED <<cfgVars, config, fsVars, urls, clipVars, cleanVars, out>>

\* ---- main, lines 184-227: the match on the UploadResult ----

FailureMessage(tag) ==
  CASE tag = "IOError" -> "Something went wrong while loading the targeted file"
    [] tag = "ReqwestError" -> "Something went wrong while sending the HTTP request"
    [] tag = "HTTPClientError" -> "A HTTP client error occurred"
    [] tag = "HTTPServerError" -> "A HTTP server error occured"

\* mutant: the failure arms print but do not return
MainUploadFailed_NoReturn ==
  /\ pc = "match"
  /\ outcome.tag \in FailureTags
  /\ Say(<< <<"stdout", FailureMessage(outcome.tag)>> >>)
  /\ pc' = "cleanup"
  /\ UNCHANGED <<cfgVars, config, fsVars, upVars, clipVars, cleanVars>>

\* the four failure arms: print and return
MainUploadFailed ==
  /\ pc = "match"
  /\ outcome.tag \in FailureTags
  /\ Say(<< <<"stdout", FailureMessage(outcome.tag)>> >>)
  /\ pc' = "done"
  /\ UNCHANGED <<cfgVars, config, fsVars, upVars, clipVars, cleanVars>>

\* res.text() takes the response out of the UploadResult
Consumed(o) == [tag |-> o.tag, status |-> 0, body |-> NoBody]

\* serde_json::from_str::<JSONResponse> on the body text
ParseBody(body) == [parsed |-> TRUE, files |-> body.files]

\* res.text().unwrap() panics
SuccessTextFails ==
  /\ pc = "match"
  /\ outcome.tag = "Success" /\ outcome.body.kind = "unreadable"
  /\ Say(<< <<"stderr", "panic: unwrap on Err (text)">> >>)
  /\ pc' = "panic"
  /\ outcome' = Consumed(outcome)
  /\ UNCHANGED <<cfgVars, config, fsVars, resp, urls, httpSent, clipVars, cleanVars>>

\* serde_json::from_str::<JSONResponse> fails: expect panics
SuccessJsonFails ==
  /\ pc = "match"
  /\ outcome.tag = "Success" /\ outcome.body.kind = "garbage"
  /\ Say(<< <<"stderr", "panic: Failed to deserialise JSON response">> >>)
  /\ pc' = "panic"
  /\ outcome' = Consumed(outcome)
  /\ UNCHANGED <<cfgVars, config, fsVars, resp, urls, httpSent, clipVars, cleanVars>>

\* urls.files.pop().unwrap(): the last element
PopUrl(files) == files[Len(files)]

\* mutant: the clipboard is emptied but the URL is not stored
SuccessOneUrlCopied_NotStored ==
  /\ pc = "match"
  /\ outcome.tag = "Success" /\ outcome.body.kind = "json"
  /\ Len(outcome.body.files) = 1
  /\ clipboard' = EmptyClip
  /\ clipResult' = "ok"
  /\ Say(<< <<"stdout", "Uploaded URL">>, <<"stdout", "Copied URL to clipboard!">> >>)
  /\ pc' = "cleanup"
  /\ outcome' = Consumed(outcome)
  /\ urls' = ParseBody(outcome.body)
  /\ UNCHANGED <<cfgVars, config, fsVars, resp, httpSent, cleanVars>>

\* one URL, set_clipboard succeeds; main goes on to file_cleanup
SuccessOneUrlCopied ==
  /\ pc = "match"
  /\ outcome.tag = "Success" /\ outcome.body.kind = "json"
  /\ Len(outcome.body.files) = 1
  /\ clipboard' = PopUrl(outcome.body.files)
  /\ clipResult' = "ok"
  /\ Say(<< <<"stdout", "Uploaded URL">>, <<"stdout", "Copied URL to clipboard!">> >>)
  /\ pc' = "cleanup"
  /\ outcome' = Consumed(outcome)
  /\ urls' = ParseBody(outcome.body)
  /\ UNCHANGED <<cfgVars, config, fsVars, resp, httpSent, cleanVars>>

\* mutant: the clipboard failure is reported without the return
SuccessOneUrlClipFails_NoReturn ==
  /\ pc = "match"
  /\ outcome.tag = "Success" /\ outcome.body.kind = "json"
  /\ Len(outcome.body.files) = 1
  /\ clipboard' \in {clipboard, EmptyClip}
  /\ clipResult' = "err"
  /\ Say(<< <<"stdout", "Uploaded URL">>,
            <<"stderr", "Something went wrong while copying URL to clipboard">> >>)
  /\ pc' = "cleanup"
  /\ outcome' = Consumed(outcome)
  /\ urls' = ParseBody(outcome.body)
  /\ UNCHANGED <<cfgVars, config, fsVars, resp, httpSent, cleanVars>>

\* one URL, set_clipboard fails (before or after emptying the clipboard)
SuccessOneUrlClipFails ==
  /\ pc = "match"
  /\ outcome.tag = "Success" /\ outcome.body.kind = "json"
  /\ Len(outcome.body.files) = 1
  /\ clipboard' \in {clipboard, EmptyClip}
  /\ clipResult' = "err"
  /\ Say(<< <<"stdout", "Uploaded URL">>,
            <<"stderr", "Something went wrong while copying URL to clipboard">> >>)
  /\ pc' = "done"
  /\ outcome' = Consumed(outcome)
  /\ urls' = ParseBody(outcome.body)
  /\ UNCHANGED <<cfgVars, config, fsVars, resp, httpSent, cleanVars>>

\* mutant: the test is len() >= 1, so the last of several URLs is copied
SuccessOtherLen_CopiesLast ==
  /\ pc = "match"
  /\ outcome.tag = "Success" /\ outcome.body.kind = "json"
  /\ Len(outcome.body.files) # 1
  /\ clipboard' = IF Len(outcome.body.files) >= 1
                    THEN PopUrl(outcome.body.files) ELSE clipboard
  /\ clipResult' = IF Len(outcome.body.files) >= 1 THEN "ok" ELSE clipResult
  /\ pc' = "cleanup"
  /\ outcome' = Consumed(outcome)
  /\ urls' = ParseBody(outcome.body)
  /\ UNCHANGED <<cfgVars, config, fsVars, resp, httpSent, cleanVars, out>>

\* zero or several URLs: the if is skipped, main goes on to file_cleanup
SuccessOtherLen ==
  /\ pc = "match"
  /\ outcome.tag = "Success" /\ outcome.body.kind = "json"
  /\ Len(outcome.body.files) # 1
  /\ pc' = "cleanup"
  /\ outcome' = Consumed(outcome)
  /\ urls' = ParseBody(outcome.body)
  /\ UNCHANGED <<cfgVars, config, fsVars, resp, httpSent, clipVars, cleanVars, out>>

\* ---- file_cleanup ----

PromptMsg == <<"stdout", "Would you like to delete the file? (Y/N)">>

\* prompt printed, read_line fails: unwrap panics
CleanupReadLineFails ==
  /\ pc = "cleanup"
  /\ prompts' = prompts + 1
  /\ stdinReads' = stdinReads + 1
  /\ Say(<< PromptMsg, <<"stderr", "panic: unwrap on Err (read_line)">> >>)
  /\ pc' = "panic"
  /\ UNCHANGED <<cfgVars, config, fsVars, upVars, clipVars, line, choice, hpos,
                 hash, readFailed, dest, renameResult, hashOpens, hashReads, renames>>

\* the answer is no / n
CleanupNo ==
  /\ pc = "cleanup"
  /\ \E l \in Lines :
       /\ DeletionChoiceOf(l) = "No"
       /\ line' = l
  /\ choice' = "No"
  /\ prompts' = prompts + 1
  /\ stdinReads' = stdinReads + 1
  /\ Say(<< PromptMsg >>)
  /\ pc' = "done"
  /\ UNCHANGED <<cfgVars, config, fsVars, upVars, clipVars, hpos, hash,
                 readFailed, dest, renameResult, hashOpens, hashReads, renames>>

\* any other answer than yes / y / no / n
CleanupInvalid ==
  /\ pc = "cleanup"
  /\ \E l \in Lines :
       /\ DeletionChoiceOf(l) = "InvalidChoice"
       /\ line' = l
  /\ choice' = "InvalidChoice"
  /\ prompts' = prompts + 1
  /\ stdinReads' = stdinReads + 1
  /\ Say(<< PromptMsg, <<"stderr", "Invalid choice">> >>)
  /\ pc' = "done"
  /\ UNCHANGED <<cfgVars, config, fsVars, upVars, clipVars, hpos, hash,
                 readFailed, dest, renameResult, hashOpens, hashReads, renames>>

\* the answer is yes / y and File::open succeeds: enter the hashing loop
CleanupYes ==
  /\ pc = "cleanup"
  /\ orig # NoFile
  /\ \E l \in Lines :
       /\ DeletionChoiceOf(l) = "Yes"
       /\ line' = l
  /\ choice' = "Yes"
  /\ prompts' = prompts + 1
  /\ stdinReads' = stdinReads + 1
  /\ hashOpens' = hashOpens + 1
  /\ hpos' = 0
  /\ hash' = Md5New
  /\ Say(<< PromptMsg >>)
  /\ pc' = "hash"
  /\ UNCHANGED <<cfgVars, config, fsVars, upVars, clipVars, readFailed, dest,
                 renameResult, hashReads, renames>>

\* the answer is yes / y and File::open fails: unwrap panics
CleanupYesOpenFails ==
  /\ pc = "cleanup"
  /\ \E l \in Lines :
       /\ DeletionChoiceOf(l) = "Yes"
       /\ line' = l
  /\ choice' = "Yes"
  /\ prompts' = prompts + 1
  /\ stdinReads' = stdinReads + 1
  /\ hashOpens' = hashOpens + 1
  /\ Say(<< PromptMsg, <<"stderr", "panic: unwrap on Err (File::open)">> >>)
  /\ pc' = "panic"
  /\ UNCHANGED <<cfgVars, config, fsVars, upVars, clipVars, hpos, hash,
                 readFailed, dest, renameResult, hashReads, renames>>

\* mutant: hash.update(&buf), the whole buffer with its zero tail
HashReadChunk_WholeBuf ==
  /\ pc = "hash"
  /\ hpos < Len(orig.content)
  /\ \E n \in 1..Min(BufSize, Len(orig.content) - hpos) :
       /\ hash' = Md5Update(hash, SubSeq(orig.content, hpos + 1, hpos + n)
                                    \o [i \in 1..(BufSize - n) |-> 0])
       /\ hpos' = hpos + n
  /\ hashReads' = hashReads + 1
  /\ UNCHANGED <<pc, cfgVars, config, fsVars, upVars, clipVars, line, choice,
                 readFailed, dest, renameResult, prompts, stdinReads, hashOpens,
                 renames, out>>

\* f.read returns Ok(n), n > 0: hash.update(&buf[..n])
HashReadChunk ==
  /\ pc = "hash"
  /\ hpos < Len(orig.content)
  /\ \E n \in 1..Min(BufSize, Len(orig.content) - hpos) :
       /\ hash' = Md5Update(hash, SubSeq(orig.content, hpos + 1, hpos + n))
       /\ hpos' = hpos + n
  /\ hashReads' = hashReads + 1
  /\ UNCHANGED <<pc, cfgVars, config, fsVars, upVars, clipVars, line, choice,
                 readFailed, dest, renameResult, prompts, stdinReads, hashOpens,
                 renames, out>>

\* f.read returns Ok(0) at end of file: break, finalize, build temp_path
HashReadEof ==
  /\ pc = "hash"
  /\ hpos = Len(orig.content)
  /\ hashReads' = hashReads + 1
  /\ dest' = TempName(Md5Finalize(hash))
  /\ pc' = "rename"
  /\ UNCHANGED <<cfgVars, config, fsVars, upVars, clipVars, line, choice, hpos,
                 hash, readFailed, renameResult, prompts, stdinReads, hashOpens,
                 renames, out>>

\* f.read returns Err: report, break, finalize what was hashed, build temp_path
HashReadErr ==
  /\ pc = "hash"
  /\ hashReads' = hashReads + 1
  /\ readFailed' = TRUE
  /\ dest' = TempName(Md5Finalize(hash))
  /\ Say(<< <<"stderr", "Error reading file">> >>)
  /\ pc' = "rename"
  /\ UNCHANGED <<cfgVars, config, fsVars, upVars, clipVars, line, choice, hpos,
                 hash, renameResult, prompts, stdinReads, hashOpens, renames>>

\* fs::rename succeeds: the file moves to the temp directory
RenameOk ==
  /\ pc = "rename"
  /\ renames' = renames + 1
  /\ renameResult' = "ok"
  /\ temp' = {t \in temp : t.name # dest} \cup {[name |-> dest, content |-> orig.content]}
  /\ orig' = NoFile
  /\ Say(<< <<"stdout", "File deleted!">> >>)
  /\ pc' = "done"
  /\ UNCHANGED <<cfgVars, config, orig0, upVars, clipVars, line, choice, hpos,
                 hash, readFailed, dest, prompts, stdinReads, hashOpens, hashReads>>

\* mutant: a failed move still removes the source
RenameErr_SourceLost ==
  /\ pc = "rename"
  /\ renames' = renames + 1
  /\ renameResult' = "err"
  /\ orig' = NoFile
  /\ Say(<< <<"stdout", "Something went wrong while moving the file to the temp dir">> >>)
  /\ pc' = "done"
  /\ UNCHANGED <<cfgVars, config, orig0, temp, upVars, clipVars, line, choice, hpos,
                 hash, readFailed, dest, prompts, stdinReads, hashOpens, hashReads>>

\* fs::rename fails: nothing moves
RenameErr ==
  /\ pc = "rename"
  /\ renames' = renames + 1
  /\ renameResult' = "err"
  /\ Say(<< <<"stdout", "Something went wrong while moving the file to the temp dir">> >>)
  /\ pc' = "done"
  /\ UNCHANGED <<cfgVars, config, fsVars, upVars, clipVars, line, choice, hpos,
                 hash, readFailed, dest, prompts, stdinReads, hashOpens, hashReads>>

Next ==
  \/ BootstrapFirstRun
  \/ BootstrapWriteFails
  \/ ReadConfigOk
  \/ ReadConfigReadFails
  \/ ReadConfigParseFails
  \/ ArgMissing
  \/ CurrentDirFails
  \/ HeadersPanic
  \/ ResolveOk
  \/ UploadFormErr
  \/ UploadSendErr
  \/ UploadResponse
  \/ MainUploadFailed
  \/ SuccessTextFails
  \/ SuccessJsonFails
  \/ SuccessOneUrlCopied
  \/ SuccessOneUrlClipFails
  \/ SuccessOtherLen
  \/ CleanupReadLineFails
  \/ CleanupNo
  \/ CleanupInvalid
  \/ CleanupYes
  \/ CleanupYesOpenFails
  \/ HashReadChunk
  \/ HashReadEof
  \/ HashReadErr
  \/ RenameOk
  \/ RenameErr

Spec == Init /\ [][Next]_vars

\* the network call and the stdin read return, and the process keeps running
FairSpec == Spec /\ WF_vars(Next)

\* ---- properties ----

TheUrls == urls.files
InvalidReports ==
  Cardinality({i \in 1..Len(out) : out[i] = <<"stderr", "Invalid choice">>})
FilesystemUntouched == orig = orig0 /\ temp = {}
AnsweredYes ==
  /\ choice = "Yes"
  /\ to_lowercase(trim(line)) \in {<<"y">>, <<"y", "e", "s">>}

\* a Success outcome whose body parses to zero or to two or more URLs
C1_Case ==
  /\ outcome.tag = "Success"
  /\ urls.parsed
  /\ Len(TheUrls) # 1

\* C1 as stated: after a Success outcome with zero or >= 2 URLs the run ends
\* with the clipboard unwritten, the filesystem untouched and the cleanup
\* prompt never shown.
C1_DownstreamSkipped ==
  (C1_Case /\ pc \in Terminal) =>
     (clipboard = PriorClip /\ FilesystemUntouched /\ prompts = 0)

\* C1 amended: after a Success outcome with zero or >= 2 URLs the clipboard is
\* never written and nothing is printed about the cardinality, but
\* file_cleanup still runs: the prompt is shown once, and the filesystem
\* changes only when the answer is yes and the rename succeeds.
C1_ClipboardSkippedCleanupRuns ==
  C1_Case =>
     /\ clipboard = PriorClip /\ clipResult = None
     /\ pc = "cleanup" => (out = <<>> /\ prompts = 0)
     /\ pc \in {"hash", "rename", "done", "panic"} => prompts = 1
     /\ ~FilesystemUntouched => (AnsweredYes /\ renameResult = "ok")

C1_Witness ==
  /\ C1_Case /\ Len(TheUrls) = 2
  /\ pc = "done" /\ renameResult = "ok" /\ orig = NoFile /\ clipboard = PriorClip

\* C2: with any of the four failure outcomes main prints its message and
\* returns; the clipboard is not written, the prompt is not shown and the
\* target file is not opened for hashing, read, renamed or changed.
C2_FailureAborts ==
  outcome.tag \in FailureTags =>
     /\ pc \in {"match", "done"}
     /\ pc = "done" => out = << <<"stdout", FailureMessage(outcome.tag)>> >>
     /\ clipboard = PriorClip /\ clipResult = None
     /\ prompts = 0 /\ stdinReads = 0
     /\ hashOpens = 0 /\ hashReads = 0 /\ renames = 0
     /\ FilesystemUntouched

C2_Witness ==
  /\ pc = "done"
  /\ outcome.tag = "HTTPClientError" /\ outcome.status = 404
  /\ orig = orig0 /\ orig.exists

\* C3 as stated: after a yes answer, when file_cleanup has finished the
\* original path is empty and the temp directory holds {hex(md5(bytes))}.tmp
\* with the original content.
C3_YesAlwaysMoves ==
  (choice = "Yes" /\ pc = "done") =>
     /\ orig = NoFile
     /\ [name |-> TempName(Md5Of(orig0.content)), content |-> orig0.content] \in temp

\* C3 amended: after a yes answer and a successful rename the original path
\* is empty and the temp directory holds one .tmp file with the original
\* content, named by the hex digest of the bytes the hashing loop read, which
\* are all bytes of the file when no chunk read failed.
C3_YesAndRenamedMoves ==
  (choice = "Yes" /\ pc = "done" /\ renameResult = "ok") =>
     /\ orig = NoFile
     /\ temp = {[name |-> TempName(Md5Of(SubSeq(orig0.content, 1, hpos))),
                 content |-> orig0.content]}
     /\ ~readFailed => hpos = Len(orig0.content)

C3_Witness ==
  /\ choice = "Yes" /\ pc = "done" /\ renameResult = "ok" /\ ~readFailed
  /\ Len(orig0.content) >= 2 /\ hashReads >= 3
  /\ orig = NoFile

\* C4: the file leaves its path only after a yes answer and a successful
\* rename; after no, an invalid answer or a failed rename the file is
\* unchanged and the temp directory is empty; an invalid answer is reported
\* once and the prompt is not repeated.
C4_OnlyYesAndRenameMoves ==
  /\ ~FilesystemUntouched => (AnsweredYes /\ renameResult = "ok")
  /\ (choice \in {"No", "InvalidChoice"} \/ renameResult = "err") => FilesystemUntouched
  /\ choice = "InvalidChoice" =>
        (pc = "done" /\ prompts = 1 /\ stdinReads = 1 /\ InvalidReports = 1)

C4_Witness ==
  /\ pc = "done" /\ renameResult = "err" /\ AnsweredYes
  /\ orig = orig0 /\ orig.exists /\ temp = {}

\* C5: upload_file returns one of five outcomes by first match: form error ->
\* IOError (nothing sent); send error -> ReqwestError; a response with status
\* 400..499 -> HTTPClientError(status); 500..599 -> HTTPServerError(status);
\* any other status -> Success.
C5_Classification ==
  pc = "match" =>
     /\ outcome.tag \in FailureTags \cup {"Success"}
     /\ resp.form = "err" <=> (outcome.tag = "IOError" /\ httpSent = 0)
     /\ (resp.form = "ok" /\ resp.sent = "err") <=> outcome.tag = "ReqwestError"
     /\ resp.sent = "ok" =>
          /\ outcome.status \in Statuses
          /\ outcome.status \in 400..499 <=> outcome.tag = "HTTPClientError"
          /\ outcome.status \in 500..599 <=> outcome.tag = "HTTPServerError"
          /\ outcome.status \notin 400..599 <=> outcome.tag = "Success"

C5_Witness ==
  /\ pc = "match" /\ resp.sent = "ok" /\ outcome.status = 400
  /\ outcome.tag = "HTTPClientError"

\* C6 as stated: no request is sent unless the config directory existed at
\* start and config.json was read and parsed; when the directory is absent
\* the run creates it, writes the template and ends without a request; when
\* the directory exists but the file cannot be read or parsed the run ends
\* without a request and without writing the file.
C6_BootstrapGate ==
  /\ httpSent > 0 => (dir0 /\ config.ok)
  /\ (~dir0 /\ pc \in Terminal) =>
        (cfgDir /\ cfgFile = "template" /\ httpSent = 0)
  /\ (dir0 /\ ~config.ok /\ pc \in Terminal) =>
        (httpSent = 0 /\ cfgFile = cfgFile0)

\* a Success outcome whose body parses to exactly one URL
C7_Case ==
  /\ outcome.tag = "Success"
  /\ urls.parsed
  /\ Len(TheUrls) = 1

\* C7 as stated: after a Success outcome with exactly one URL the run ends
\* with the clipboard holding that URL.
C7_ClipboardHoldsUrl ==
  (C7_Case /\ pc \in Terminal) => clipboard = TheUrls[1]

\* C7 amended: after a Success outcome with exactly one URL, if set_clipboard
\* succeeds the clipboard holds exactly that URL from then on, through the
\* whole cleanup stage.
C7_ClipboardHoldsUrlWhenWritten ==
  C7_Case =>
     /\ clipResult \in {"ok", "err"}
     /\ clipResult = "ok" => clipboard = TheUrls[1]

C7_Witness ==
  /\ C7_Case /\ clipResult = "ok"
  /\ pc = "done" /\ renameResult = "ok"
  /\ clipboard = "https://h.example/abc"

\* C8: when set_clipboard fails the failure is reported and main returns:
\* no prompt, no stdin read, the target file unchanged.
C8_ClipboardFailureAborts ==
  clipResult = "err" =>
     /\ pc = "done"
     /\ out[Len(out)] = <<"stderr", "Something went wrong while copying URL to clipboard">>
     /\ prompts = 0 /\ stdinReads = 0
     /\ hashOpens = 0 /\ hashReads = 0 /\ renames = 0
     /\ FilesystemUntouched

C8_Witness ==
  /\ clipResult = "err" /\ pc = "done"
  /\ clipboard = EmptyClip /\ orig.exists

\* C9 as stated: whenever the rename is attempted its destination is
\* {d}.tmp with d the MD5 hex digest of the whole content of the target
\* file, also when a chunk read failed.
C9_DestIsDigestOfWholeFile ==
  (pc = "rename" \/ renames > 0) => dest = TempName(Md5Of(orig0.content))

\* C10: a run sends at most one request, prompts and reads stdin at most
\* once, reports an invalid answer at most once, renames at most once, and
\* from every stage reaches a terminal state.
C10_SingleShot ==
  /\ [](/\ httpSent <= 1 /\ prompts <= 1 /\ stdinReads <= 1
        /\ renames <= 1 /\ hashOpens <= 1 /\ InvalidReports <= 1)
  /\ (pc \notin Terminal) ~> (pc \in Terminal)

C10_Witness ==
  /\ pc = "done"
  /\ httpSent = 1 /\ prompts = 1 /\ stdinReads = 1 /\ renames = 1
====
